---- MODULE Spec2Model ----
(***************************************************************************)
(* Fatigue monitoring core of the pearl repository:                        *)
(*   backend/Physio_score.py  PhysioScore        (sliding signal window)   *)
(*   backend/Fatigue_calc.py  FatigueCalculator  (hybrid classifier with   *)
(*                                                time-based persistence)  *)
(*   backend/main.py          live_monitoring    (per-frame driver loop)   *)
(*   Model/Physiological_Factor.py  the legacy FatigueCalculator and its   *)
(*                                  test_critical_alert                    *)
(*                                                                         *)
(* Python floats are modelled as exact rationals <<numerator, denominator>>*)
(* with a positive denominator, so sums, quotients and comparisons are    *)
(* exact and int(x) is the floor of the exact value.  Wall-clock time      *)
(* (time.time()) is an integer number of clock ticks, TicksPerSecond ticks *)
(* to the second, and never runs backwards.                                *)
(***************************************************************************)
EXTENDS Integers, Sequences, FiniteSets, TLC

VARIABLES
    \* PhysioScore
    frame_rate, eye_states, yawn_states, droopy_eyelids_states,
    droopy_face_states, consecutive_eye_closed, consecutive_droopy_face,
    debug_info,
    \* FatigueCalculator
    current_level, startup_frames, previous_alerts_count, alert_history,
    level_persistence_timer, current_stable_level,
    \* live_monitoring loop and its environment:
    \*   frame_count   frames processed by the loop
    \*   clock         the latest reading of time.time(), in ticks
    \*   result        the tuple the latest calculate_fatigue_level returned
    \*   call          the locals of that call (rule level, proposed level,
    \*                 confidence, the times it read, ...)
    \*   switches      changes of the detector's output so far
    \*   high_seen_at  history variable: the time read by the latest call
    \*                 that set or confirmed HIGH FATIGUE, -1 if none
    \*   snapshot      the dict the latest get_physio_scores returned
    \*   raised        the exception that ended the program, if any
    \*   twin          a second PhysioScore and FatigueCalculator, fed the
    \*                 same frames and clock readings but for droopy_face
    frame_count, clock, result, call, switches, high_seen_at, snapshot, raised,
    twin

physio_vars == <<frame_rate, eye_states, yawn_states, droopy_eyelids_states,
                 droopy_face_states, consecutive_eye_closed,
                 consecutive_droopy_face, debug_info>>
engine_vars == <<current_level, startup_frames, previous_alerts_count,
                 alert_history, level_persistence_timer, current_stable_level>>
env_vars    == <<frame_count, clock, result, call, switches, high_seen_at,
                 snapshot, raised, twin>>
vars        == <<physio_vars, engine_vars, env_vars>>

----------------------------------------------------------------------------
(* Bounds of the model                                                     *)

\* resolution of the modelled clock
TicksPerSecond == 2
\* calculate_fatigue_level calls explored after the calibration period
MaxCalls == 3
\* frames of the monitoring loop
LiveMaxFrames == 32
\* frames explored beyond the point where the window is full
ExtraFrames == 2
\* changes of the detector's output along one run
MaxSwitches == 1
\* frames ingested by a PhysioScore constructed with an arbitrary frame_rate
ConfigMaxFrames == 4
\* largest alert count handed to _rule_based_classification when it is
\* applied to arbitrary arguments
MaxAlerts == 4
SettledCalls == 1
\* frames fed to the legacy calculator at frame_rate 1: enough for a 5 s
\* closure to end a window whose PERCLOS is below 0.15
LegacyLongRun == 36

----------------------------------------------------------------------------
(* Exact rationals standing for Python floats                              *)

RECURSIVE GCD(_, _)
GCD(a, b) == IF b = 0 THEN a ELSE GCD(b, a % b)

Abs(n) == IF n < 0 THEN -n ELSE n

Rat(n, d) ==
    LET g == GCD(Abs(n), d) IN <<n \div g, d \div g>>

RInt(n)     == <<n, 1>>
RAdd(a, b)  == Rat(a[1] * b[2] + b[1] * a[2], a[2] * b[2])
RMul(a, b)  == Rat(a[1] * b[1], a[2] * b[2])
\* a / b for b > 0
RDiv(a, b)  == Rat(a[1] * b[2], a[2] * b[1])
RLt(a, b)   == a[1] * b[2] < b[1] * a[2]
RLe(a, b)   == a[1] * b[2] <= b[1] * a[2]
RGt(a, b)   == RLt(b, a)
RGe(a, b)   == RLe(b, a)
RMin(a, b)  == IF RLe(a, b) THEN a ELSE b
RMax(a, b)  == IF RGe(a, b) THEN a ELSE b
\* int(x) for x >= 0
RFloor(a)   == a[1] \div a[2]

\* sum() of a deque of booleans: True counts 1, False counts 0
Sum(s) == Len(SelectSeq(s, LAMBDA b : b))

----------------------------------------------------------------------------
(* PhysioScore (backend/Physio_score.py)                                   *)

WINDOW_SECONDS == 30
MIN_YAWN_FRAMES == 30

window_frames(fr) == WINDOW_SECONDS * fr

\* mutant of DequeAppend: a plain list, nothing is ever evicted
DequeAppend_Unbounded(q, x, maxlen) == Append(q, x)

\* collections.deque(maxlen=n).append(x)
DequeAppend(q, x, maxlen) ==
    IF maxlen = 0 THEN q
    ELSE IF Len(q) = maxlen THEN Append(Tail(q), x)
    ELSE Append(q, x)

EmptyDict == [k \in {} |-> 0]

NoException == ""

PhysioInit(fr) ==
    /\ frame_rate = fr
    /\ eye_states = <<>>
    /\ yawn_states = <<>>
    /\ droopy_eyelids_states = <<>>
    /\ droopy_face_states = <<>>
    /\ consecutive_eye_closed = 0
    /\ consecutive_droopy_face = 0
    /\ debug_info = EmptyDict

\* PhysioScore(frame_rate=fr): deque(maxlen=n) raises ValueError for n < 0
\* and accepts n = 0
PhysioConstruct(fr) ==
    IF window_frames(fr) < 0 THEN
        /\ raised = "ValueError in PhysioScore.__init__"
        /\ frame_rate = fr
        /\ eye_states = <<>>
        /\ yawn_states = <<>>
        /\ droopy_eyelids_states = <<>>
        /\ droopy_face_states = <<>>
        /\ consecutive_eye_closed = 0
        /\ consecutive_droopy_face = 0
        /\ debug_info = EmptyDict
    ELSE
        /\ raised = NoException
        /\ PhysioInit(fr)

update_vision_metrics(eye_closed, yawning, droopy_eyelids, droopy_face) ==
    LET cap == window_frames(frame_rate) IN
    /\ eye_states' = DequeAppend(eye_states, eye_closed, cap)
    /\ yawn_states' = DequeAppend(yawn_states, yawning, cap)
    /\ droopy_eyelids_states' =
           DequeAppend(droopy_eyelids_states, droopy_eyelids, cap)
    /\ droopy_face_states' = DequeAppend(droopy_face_states, droopy_face, cap)
    /\ consecutive_eye_closed' =
           IF eye_closed THEN consecutive_eye_closed + 1 ELSE 0
    /\ consecutive_droopy_face' =
           IF droopy_face THEN consecutive_droopy_face + 1 ELSE 0
    /\ debug_info' =
           [current_eye_closed |-> eye_closed,
            current_yawning |-> yawning,
            current_droopy_eyelids |-> droopy_eyelids,
            current_droopy_face |-> droopy_face,
            consecutive_frames |-> consecutive_eye_closed',
            consecutive_droopy_face_frames |-> consecutive_droopy_face',
            total_eye_frames |-> Sum(eye_states'),
            total_yawn_frames |-> Sum(yawn_states'),
            total_droopy_eyelids_frames |-> Sum(droopy_eyelids_states'),
            total_droopy_face_frames |-> Sum(droopy_face_states'),
            window_size |-> Len(eye_states')]
    /\ UNCHANGED frame_rate

\* mutant of calculate_perclos: the ratio scaled to a percentage
calculate_perclos_Percent(eyes) ==
    IF Len(eyes) = 0 THEN RInt(0) ELSE Rat(100 * Sum(eyes), Len(eyes))

calculate_perclos(eyes) ==
    IF Len(eyes) = 0 THEN RInt(0) ELSE Rat(Sum(eyes), Len(eyes))

\* the loop of calculate_fom over the first n entries: yawn_events, with
\* prev_was_yawn being FALSE before the first entry and s[i - 1] after it
RECURSIVE YawnEvents(_, _)
YawnEvents(s, n) ==
    IF n = 0 THEN 0
    ELSE YawnEvents(s, n - 1)
         + (IF s[n] /\ ~(n > 1 /\ s[n - 1]) THEN 1 ELSE 0)

\* mutant of calculate_fom: every yawning frame counts as an event
calculate_fom_CountsFrames(yawns, fr) ==
    IF Len(yawns) < MIN_YAWN_FRAMES THEN RInt(0)
    ELSE LET yawn_events == Sum(yawns)
             window_seconds == RMax(Rat(Len(yawns), fr), RInt(10))
         IN RMul(RDiv(RInt(yawn_events), window_seconds), RInt(60))

\* mutant of calculate_fom: events per second, the factor 60 left out
calculate_fom_PerSecond(yawns, fr) ==
    IF Len(yawns) < MIN_YAWN_FRAMES THEN RInt(0)
    ELSE LET yawn_events == YawnEvents(yawns, Len(yawns))
             window_seconds == RMax(Rat(Len(yawns), fr), RInt(10))
         IN RDiv(RInt(yawn_events), window_seconds)

calculate_fom(yawns, fr) ==
    IF Len(yawns) < MIN_YAWN_FRAMES THEN RInt(0)
    ELSE LET yawn_events == YawnEvents(yawns, Len(yawns))
             window_seconds == RMax(Rat(Len(yawns), fr), RInt(10))
         IN RMul(RDiv(RInt(yawn_events), window_seconds), RInt(60))

\* mutant of get_continuous_eye_closure: the run is read off the window, so
\* it cannot exceed the window's capacity
get_continuous_eye_closure_FromWindow(n, fr) == Rat(IF n > window_frames(fr) THEN window_frames(fr) ELSE n, fr)

get_continuous_eye_closure(n, fr) == Rat(n, fr)

get_continuous_droopy_face(n, fr) == Rat(n, fr)

get_droopy_eyelids_frequency(s) ==
    IF Len(s) = 0 THEN RInt(0) ELSE Rat(Sum(s), Len(s))

get_droopy_face_frequency(s) ==
    IF Len(s) = 0 THEN RInt(0) ELSE Rat(Sum(s), Len(s))

\* mutant of PhysioScores: the eyelid frequency is read off the droopy_face
\* window
PhysioScores_FaceForEyelids(eyes, yawns, eyelids, faces, n_eye, n_face, fr) ==
    [perclos |-> calculate_perclos(eyes),
     fom |-> calculate_fom(yawns, fr),
     continuous_closure_sec |-> get_continuous_eye_closure(n_eye, fr),
     continuous_droopy_face_sec |-> get_continuous_droopy_face(n_face, fr),
     droopy_eyelids_frequency |-> get_droopy_face_frequency(faces),
     droopy_face_frequency |-> get_droopy_face_frequency(faces)]

\* get_physio_scores, of given window contents
PhysioScores(eyes, yawns, eyelids, faces, n_eye, n_face, fr) ==
    [perclos |-> calculate_perclos(eyes),
     fom |-> calculate_fom(yawns, fr),
     continuous_closure_sec |-> get_continuous_eye_closure(n_eye, fr),
     continuous_droopy_face_sec |-> get_continuous_droopy_face(n_face, fr),
     droopy_eyelids_frequency |-> get_droopy_eyelids_frequency(eyelids),
     droopy_face_frequency |-> get_droopy_face_frequency(faces)]

get_physio_scores ==
    PhysioScores(eye_states, yawn_states, droopy_eyelids_states,
                 droopy_face_states, consecutive_eye_closed,
                 consecutive_droopy_face, frame_rate)

\* a call of get_physio_scores by the program: with frame_rate = 0 the
\* division of get_continuous_eye_closure raises ZeroDivisionError
TakeSnapshot ==
    /\ IF frame_rate = 0 THEN
           /\ raised' = "ZeroDivisionError in PhysioScore.get_continuous_eye_closure"
           /\ UNCHANGED snapshot
       ELSE
           /\ snapshot' = get_physio_scores
           /\ UNCHANGED raised
    /\ UNCHANGED physio_vars

----------------------------------------------------------------------------
(* FatigueCalculator (backend/Fatigue_calc.py)                             *)

CALIBRATION_FRAMES == 30

Levels == {"NORMAL", "EARLY FATIGUE", "HIGH FATIGUE"}

\* seconds (a whole number) as clock ticks
Seconds(n) == n * TicksPerSecond

EngineInit(now) ==
    /\ current_level = "NORMAL"
    /\ startup_frames = 0
    /\ previous_alerts_count = 0
    /\ alert_history = <<>>
    /\ level_persistence_timer = now
    /\ current_stable_level = "NORMAL"

\* the mock factors of calculate_fatigue_level
reaction_time_ms == 280
voice_score   == <<75, 100>>
history_score == <<70, 100>>
sleep_hours   == <<11, 2>>

normalize_perclos(perclos) == RMin(RDiv(perclos, <<3, 10>>), RInt(1))

normalize_fom(fom) == RMin(RDiv(fom, <<2, 10>>), RInt(1))

normalize_droopy(droopy_freq) == RMin(RDiv(droopy_freq, RInt(1)), RInt(1))

normalize_reaction_time(reaction_ms) ==
    IF reaction_ms <= 250 THEN RInt(0)
    ELSE IF reaction_ms >= 500 THEN RInt(1)
    ELSE Rat(reaction_ms - 250, 250)

normalize_sleep(hours) ==
    IF RGe(hours, RInt(8)) THEN RInt(0)
    ELSE IF RGe(hours, RInt(7)) THEN <<1, 10>>
    ELSE IF RGe(hours, RInt(6)) THEN <<3, 10>>
    ELSE IF RGe(hours, RInt(5)) THEN <<5, 10>>
    ELSE IF RGe(hours, RInt(4)) THEN <<7, 10>>
    ELSE <<9, 10>>

\* STEP 1 of calculate_fatigue_level: the weighted equation score
fatigue_score(perclos, fom, droopy_eyelids_frequency) ==
    RAdd(RMul(<<25, 100>>, normalize_perclos(perclos)),
    RAdd(RMul(<<20, 100>>, normalize_fom(fom)),
    RAdd(RMul(<<15, 100>>, normalize_droopy(droopy_eyelids_frequency)),
    RAdd(RMul(<<15, 100>>, normalize_reaction_time(reaction_time_ms)),
    RAdd(RMul(<<10, 100>>, voice_score),
    RAdd(RMul(<<10, 100>>, history_score),
         RMul(<<5, 100>>, normalize_sleep(sleep_hours))))))))

\* mutant of rule_based_classification: the alert count is read by the
\* trailing branches only, never by the two rule lists
rule_based_classification_AlertsLast(perclos, fom, eye_closure, droopy_eyelids, sleep, reaction_ms, alerts) ==
    IF \/ RGt(eye_closure, RInt(10))
       \/ RGt(perclos, <<24, 100>>) \/ RGt(fom, <<16, 100>>)
       \/ RGt(droopy_eyelids, <<8, 10>>)
       \/ RLt(sleep, RInt(2)) \/ reaction_ms > 500
    THEN "HIGH FATIGUE"
    ELSE IF \/ (RLe(<<15, 100>>, perclos) /\ RLe(perclos, <<24, 100>>))
            \/ RGt(fom, <<16, 100>>)
            \/ RGt(droopy_eyelids, <<5, 10>>)
            \/ (RLe(RInt(2), sleep) /\ RLt(sleep, RInt(4)))
            \/ (350 < reaction_ms /\ reaction_ms <= 500)
    THEN "EARLY FATIGUE"
    ELSE IF alerts >= 4 THEN "HIGH FATIGUE"
    ELSE IF alerts >= 2 THEN "EARLY FATIGUE"
    ELSE "NORMAL"

\* mutant of rule_based_classification: the second rule list does not read
\* the alert count, which is left to the trailing branches
rule_based_classification_NoAlertInRuleTwo(perclos, fom, eye_closure, droopy_eyelids, sleep, reaction_ms, alerts) ==
    IF \/ RGt(eye_closure, RInt(10))
       \/ RGt(perclos, <<24, 100>>) \/ RGt(fom, <<16, 100>>)
       \/ RGt(droopy_eyelids, <<8, 10>>)
       \/ RLt(sleep, RInt(2)) \/ reaction_ms > 500
       \/ alerts >= 3
    THEN "HIGH FATIGUE"
    ELSE IF \/ (RLe(<<15, 100>>, perclos) /\ RLe(perclos, <<24, 100>>))
            \/ RGt(fom, <<16, 100>>)
            \/ RGt(droopy_eyelids, <<5, 10>>)
            \/ (RLe(RInt(2), sleep) /\ RLt(sleep, RInt(4)))
            \/ (350 < reaction_ms /\ reaction_ms <= 500)
    THEN "EARLY FATIGUE"
    ELSE IF alerts >= 4 THEN "HIGH FATIGUE"
    ELSE IF alerts >= 2 THEN "EARLY FATIGUE"
    ELSE "NORMAL"

rule_based_classification(perclos, fom, eye_closure, droopy_eyelids, sleep, reaction_ms, alerts) ==
    IF \/ RGt(eye_closure, RInt(10))
       \/ RGt(perclos, <<24, 100>>) \/ RGt(fom, <<16, 100>>)
       \/ RGt(droopy_eyelids, <<8, 10>>)
       \/ RLt(sleep, RInt(2)) \/ reaction_ms > 500
       \/ alerts >= 3
    THEN "HIGH FATIGUE"
    ELSE IF \/ (RLe(<<15, 100>>, perclos) /\ RLe(perclos, <<24, 100>>))
            \/ RGt(fom, <<16, 100>>)
            \/ RGt(droopy_eyelids, <<5, 10>>)
            \/ (RLe(RInt(2), sleep) /\ RLt(sleep, RInt(4)))
            \/ (350 < reaction_ms /\ reaction_ms <= 500)
            \/ alerts >= 1
    THEN "EARLY FATIGUE"
    ELSE IF alerts >= 4 THEN "HIGH FATIGUE"
    ELSE IF alerts >= 2 THEN "EARLY FATIGUE"
    ELSE "NORMAL"

\* mutant of ProposedLevel: the thresholds are inclusive
ProposedLevel_Inclusive(rule_level, equation_score) ==
    IF rule_level = "HIGH FATIGUE" THEN "HIGH FATIGUE"
    ELSE IF rule_level = "EARLY FATIGUE" THEN
        (IF RGe(equation_score, <<65, 100>>) THEN "HIGH FATIGUE"
         ELSE "EARLY FATIGUE")
    ELSE IF RGe(equation_score, <<70, 100>>) THEN "HIGH FATIGUE"
    ELSE IF RGe(equation_score, <<50, 100>>) THEN "EARLY FATIGUE"
    ELSE "NORMAL"

\* _hybrid_decision_with_persistence, lines 106-120
ProposedLevel(rule_level, equation_score) ==
    IF rule_level = "HIGH FATIGUE" THEN "HIGH FATIGUE"
    ELSE IF rule_level = "EARLY FATIGUE" THEN
        (IF RGt(equation_score, <<65, 100>>) THEN "HIGH FATIGUE"
         ELSE "EARLY FATIGUE")
    ELSE IF RGt(equation_score, <<70, 100>>) THEN "HIGH FATIGUE"
    ELSE IF RGt(equation_score, <<50, 100>>) THEN "EARLY FATIGUE"
    ELSE "NORMAL"

\* mutant of EmergencyOverride: both conditions required
EmergencyOverride_Both(eye_closure, rule_level) ==
    RGt(eye_closure, RInt(10)) /\ rule_level = "HIGH FATIGUE"

\* mutant of EmergencyOverride: the override never fires
EmergencyOverride_Never(eye_closure, rule_level) == FALSE

\* _hybrid_decision_with_persistence, line 123
EmergencyOverride(eye_closure, rule_level) ==
    RGt(eye_closure, RInt(10)) \/ rule_level = "HIGH FATIGUE"

\* mutant of RequiredTime: one dwell of 3 s for every level
RequiredTime_Uniform(proposed_level) == Seconds(3)

\* _hybrid_decision_with_persistence, lines 131-136 (in clock ticks)
RequiredTime(proposed_level) ==
    IF proposed_level = "HIGH FATIGUE" THEN Seconds(5)
    ELSE IF proposed_level = "EARLY FATIGUE" THEN Seconds(3)
    ELSE Seconds(10)

\* mutant of hybrid_decision_with_persistence: STEP 3 degenerates to the
\* equation thresholds, without rule level and without persistence
hybrid_decision_EquationOnly(equation_score, rule_level, eye_closure, stable_level, timer, current_time) ==
    LET proposed_level == ProposedLevel("NORMAL", equation_score)
    IN  [level |-> proposed_level, confidence |-> "HIGH",
         stable |-> proposed_level, timer |-> current_time]

\* mutant of hybrid_decision_with_persistence: the timer restarts on every
\* call that is held back
hybrid_decision_RestartsWhileWaiting(equation_score, rule_level, eye_closure, stable_level, timer, current_time) ==
    LET time_since_last_change == current_time - timer
        proposed_level == ProposedLevel(rule_level, equation_score)
    IN  IF EmergencyOverride(eye_closure, rule_level) THEN
            [level |-> proposed_level, confidence |-> "HIGH",
             stable |-> proposed_level, timer |-> current_time]
        ELSE IF proposed_level # stable_level THEN
            (IF time_since_last_change >= RequiredTime(proposed_level) THEN
                 [level |-> proposed_level, confidence |-> "HIGH",
                  stable |-> proposed_level, timer |-> current_time]
             ELSE
                 [level |-> stable_level, confidence |-> "MEDIUM",
                  stable |-> stable_level, timer |-> current_time])
        ELSE
            [level |-> proposed_level, confidence |-> "HIGH",
             stable |-> stable_level, timer |-> current_time]

\* mutant of hybrid_decision_with_persistence: a reading that matches the
\* stable level leaves the timer alone
hybrid_decision_KeepsTimerOnMatch(equation_score, rule_level, eye_closure, stable_level, timer, current_time) ==
    LET time_since_last_change == current_time - timer
        proposed_level == ProposedLevel(rule_level, equation_score)
    IN  IF EmergencyOverride(eye_closure, rule_level) THEN
            [level |-> proposed_level, confidence |-> "HIGH",
             stable |-> proposed_level, timer |-> current_time]
        ELSE IF proposed_level # stable_level THEN
            (IF time_since_last_change >= RequiredTime(proposed_level) THEN
                 [level |-> proposed_level, confidence |-> "HIGH",
                  stable |-> proposed_level, timer |-> current_time]
             ELSE
                 [level |-> stable_level, confidence |-> "MEDIUM",
                  stable |-> stable_level, timer |-> timer])
        ELSE
            [level |-> proposed_level, confidence |-> "HIGH",
             stable |-> stable_level, timer |-> timer]

\* mutant of hybrid_decision_with_persistence: a change that is held back
\* is emitted all the same, the stable level staying behind
hybrid_decision_EmitsHeldBackLevel(equation_score, rule_level, eye_closure, stable_level, timer, current_time) ==
    LET time_since_last_change == current_time - timer
        proposed_level == ProposedLevel(rule_level, equation_score)
    IN  IF EmergencyOverride(eye_closure, rule_level) THEN
            [level |-> proposed_level, confidence |-> "HIGH",
             stable |-> proposed_level, timer |-> current_time]
        ELSE IF proposed_level # stable_level THEN
            (IF time_since_last_change >= RequiredTime(proposed_level) THEN
                 [level |-> proposed_level, confidence |-> "HIGH",
                  stable |-> proposed_level, timer |-> current_time]
             ELSE
                 [level |-> proposed_level, confidence |-> "MEDIUM",
                  stable |-> stable_level, timer |-> timer])
        ELSE
            [level |-> proposed_level, confidence |-> "HIGH",
             stable |-> stable_level, timer |-> current_time]

\* _hybrid_decision_with_persistence: the returned (level, confidence) and
\* the values it leaves in current_stable_level and level_persistence_timer
hybrid_decision_with_persistence(equation_score, rule_level, eye_closure, stable_level, timer, current_time) ==
    LET time_since_last_change == current_time - timer
        proposed_level == ProposedLevel(rule_level, equation_score)
    IN  IF EmergencyOverride(eye_closure, rule_level) THEN
            [level |-> proposed_level, confidence |-> "HIGH",
             stable |-> proposed_level, timer |-> current_time]
        ELSE IF proposed_level # stable_level THEN
            (IF time_since_last_change >= RequiredTime(proposed_level) THEN
                 [level |-> proposed_level, confidence |-> "HIGH",
                  stable |-> proposed_level, timer |-> current_time]
             ELSE
                 [level |-> stable_level, confidence |-> "MEDIUM",
                  stable |-> stable_level, timer |-> timer])
        ELSE
            [level |-> proposed_level, confidence |-> "HIGH",
             stable |-> stable_level, timer |-> current_time]

ALERT_COOLDOWN == 2
ALERT_WINDOW == 300

\* mutant of KeepRecent: records are kept for one cooldown period only
RECURSIVE KeepRecent_OneCooldown(_, _)
KeepRecent_OneCooldown(history, current_time) ==
    IF history = <<>> THEN <<>>
    ELSE (IF current_time - history[1][2] < Seconds(ALERT_COOLDOWN)
          THEN <<history[1]>> ELSE <<>>)
         \o KeepRecent_OneCooldown(Tail(history), current_time)

\* the list comprehension of _update_alert_history
RECURSIVE KeepRecent(_, _)
KeepRecent(history, current_time) ==
    IF history = <<>> THEN <<>>
    ELSE (IF current_time - history[1][2] < Seconds(ALERT_WINDOW)
          THEN <<history[1]>> ELSE <<>>)
         \o KeepRecent(Tail(history), current_time)

\* mutant of CooldownElapsed: no cooldown
CooldownElapsed_NoWait(history, current_time) == TRUE

\* the cooldown test of _update_alert_history, lines 155-156
CooldownElapsed(history, current_time) ==
    \/ history = <<>>
    \/ current_time - history[Len(history)][2] > Seconds(ALERT_COOLDOWN)

\* mutant of update_alert_history: the records are counted before the new
\* one is appended
update_alert_history_CountsBeforeAppend(history, count, level, current_time) ==
    IF CooldownElapsed(history, current_time) /\ level # "NORMAL" THEN
        LET kept == KeepRecent(history, current_time)
        IN [history |-> Append(kept, <<level, current_time>>),
            count |-> Len(kept)]
    ELSE [history |-> history, count |-> count]

\* _update_alert_history: the values it leaves in alert_history and
\* previous_alerts_count
update_alert_history(history, count, level, current_time) ==
    IF CooldownElapsed(history, current_time) /\ level # "NORMAL" THEN
        LET kept == KeepRecent(Append(history, <<level, current_time>>),
                               current_time)
        IN [history |-> kept, count |-> Len(kept)]
    ELSE [history |-> history, count |-> count]

\* mutant of get_previous_alerts_count: the frame being classified is
\* counted in advance
get_previous_alerts_count_CountsCurrent == previous_alerts_count + 1

get_previous_alerts_count == previous_alerts_count

get_alert_message(final_level, rule_level, equation_score) ==
    IF final_level = "HIGH FATIGUE" THEN
        (IF rule_level = "HIGH FATIGUE"
         THEN <<"CRITICAL: Immediate safety risk">>
         ELSE <<"HIGH: Sustained fatigue detected">>)
    ELSE IF final_level = "EARLY FATIGUE"
    THEN <<"MODERATE: Early fatigue signs">>
    ELSE <<"NORMAL: All factors within safe limits">>

\* mutant of InCalibration: equality test on the frame counter
InCalibration_NotEqual(frames) == frames # CALIBRATION_FRAMES

\* line 15
InCalibration(frames) == frames < CALIBRATION_FRAMES

\* mutant of ReturnedScore: rounded to the nearest integer
ReturnedScore_Rounded(score) == RFloor(RAdd(RMul(score, RInt(100)), <<1, 2>>))

\* line 70: int(fatigue_score * 100)
ReturnedScore(score) == RFloor(RMul(score, RInt(100)))

NoCall ==
    [calibrating |-> FALSE, classified |-> FALSE, physio_scores |-> EmptyDict,
     previous_alerts |-> 0, equation_score |-> RInt(0), rule_level |-> "",
     proposed_level |-> "", override |-> FALSE, confidence |-> "",
     stable_before |-> "", timer_before |-> 0, hybrid_time |-> 0,
     updated |-> FALSE, update_level |-> "", update_time |-> 0,
     sleep_hours |-> RInt(0), reaction_time_ms |-> 0]

\* calculate_fatigue_level, lines 18-70: what a classifying call computes
\* from the snapshot and the engine's fields, with time.time() reading
\* hybrid_time in _hybrid_decision_with_persistence and update_time in
\* _update_alert_history
Classification(physio_scores, previous_alerts, stable_level, timer, history, hybrid_time, update_time) ==
    LET perclos == physio_scores.perclos
        fom == physio_scores.fom
        continuous_closure == physio_scores.continuous_closure_sec
        droopy == physio_scores.droopy_eyelids_frequency
        score == fatigue_score(perclos, fom, droopy)
        rule_based_level ==
            rule_based_classification(perclos, fom, continuous_closure,
                droopy, sleep_hours, reaction_time_ms, previous_alerts)
        decision ==
            hybrid_decision_with_persistence(score, rule_based_level,
                continuous_closure, stable_level, timer, hybrid_time)
        final_level == decision.level
        updates == final_level # "NORMAL" \/ rule_based_level # "NORMAL"
        alerts ==
            IF updates
            THEN update_alert_history(history, previous_alerts, final_level,
                                      update_time)
            ELSE [history |-> history, count |-> previous_alerts]
    IN  [stable |-> decision.stable,
         timer |-> decision.timer,
         history |-> alerts.history,
         count |-> alerts.count,
         last_reading |-> IF updates THEN update_time ELSE hybrid_time,
         result |-> [level |-> final_level,
                     score |-> ReturnedScore(score),
                     message |-> get_alert_message(final_level,
                                     rule_based_level, score)],
         call |-> [calibrating |-> FALSE, classified |-> TRUE,
                   physio_scores |-> physio_scores,
                   previous_alerts |-> previous_alerts,
                   equation_score |-> score,
                   rule_level |-> rule_based_level,
                   proposed_level |-> ProposedLevel(rule_based_level, score),
                   override |-> EmergencyOverride(continuous_closure,
                                                  rule_based_level),
                   confidence |-> decision.confidence,
                   stable_before |-> stable_level,
                   timer_before |-> timer,
                   hybrid_time |-> hybrid_time,
                   updated |-> updates,
                   update_level |-> IF updates THEN final_level ELSE "",
                   update_time |-> IF updates THEN update_time ELSE 0,
                   sleep_hours |-> sleep_hours,
                   reaction_time_ms |-> reaction_time_ms]]

\* mutant of calculate_fatigue_level: a calibrating call returns CALIBRATING
\* but classifies the snapshot all the same
calculate_fatigue_level_ClassifiesWhileCalibrating(physio_scores, wait, gap) ==
    /\ startup_frames' = startup_frames + 1
    /\ UNCHANGED current_level
    /\ \E out \in {Classification(physio_scores, get_previous_alerts_count,
                        current_stable_level, level_persistence_timer,
                        alert_history, clock + wait, clock + wait + gap)} :
           /\ current_stable_level' = out.stable
           /\ level_persistence_timer' = out.timer
           /\ alert_history' = out.history
           /\ previous_alerts_count' = out.count
           /\ clock' = out.last_reading
           /\ high_seen_at' =
                  IF out.stable = "HIGH FATIGUE" /\ out.timer = clock + wait
                  THEN clock + wait ELSE high_seen_at
           /\ IF InCalibration(startup_frames + 1) THEN
                  /\ result' = [level |-> "CALIBRATING", score |-> 25,
                                message |-> <<"Calibrating... ",
                                    CALIBRATION_FRAMES - (startup_frames + 1),
                                    " frames left">>]
                  /\ call' = [NoCall EXCEPT !.calibrating = TRUE,
                                            !.physio_scores = physio_scores]
              ELSE
                  /\ result' = out.result
                  /\ call' = out.call

\* calculate_fatigue_level(physio_scores, current_frame_count); the clock
\* is read wait ticks after its last reading, and again gap ticks later
calculate_fatigue_level(physio_scores, wait, gap) ==
    /\ startup_frames' = startup_frames + 1
    /\ UNCHANGED current_level
    /\ IF InCalibration(startup_frames + 1) THEN
          /\ result' = [level |-> "CALIBRATING", score |-> 25,
                        message |-> <<"Calibrating... ",
                                      CALIBRATION_FRAMES - (startup_frames + 1),
                                      " frames left">>]
          /\ call' = [NoCall EXCEPT !.calibrating = TRUE,
                                    !.physio_scores = physio_scores]
          /\ UNCHANGED <<previous_alerts_count, alert_history,
                         level_persistence_timer, current_stable_level,
                         clock, high_seen_at>>
       ELSE
          \E out \in {Classification(physio_scores, get_previous_alerts_count,
                          current_stable_level, level_persistence_timer,
                          alert_history, clock + wait, clock + wait + gap)} :
              /\ current_stable_level' = out.stable
              /\ level_persistence_timer' = out.timer
              /\ alert_history' = out.history
              /\ previous_alerts_count' = out.count
              /\ clock' = out.last_reading
              /\ high_seen_at' =
                     IF out.stable = "HIGH FATIGUE" /\ out.timer = clock + wait
                     THEN clock + wait ELSE high_seen_at
              /\ result' = out.result
              /\ call' = out.call

----------------------------------------------------------------------------
(* Legacy FatigueCalculator (Model/Physiological_Factor.py).  Its fields    *)
(* frame_rate, eye_states, yawn_states, consecutive_eye_closed, debug_info *)
(* and current_level carry the names of the fields above and are held in   *)
(* the same variables; its calculate_perclos and calculate_fom are the     *)
(* code of PhysioScore's, modelled by the operators above.                 *)

LEGACY_WINDOW_SECONDS == 180
EYE_CLOSURE_CRITICAL == 5
PERCLOS_VERY_TIRED == <<24, 100>>
PERCLOS_GETTING_TIRED == <<15, 100>>
FOM_THRESHOLD == <<16, 100>>

\* current_level before the first calculate_fatigue_level: the attribute
\* does not exist
NoAttribute == "(no attribute)"

LegacyInit(fr) ==
    /\ frame_rate = fr
    /\ eye_states = <<>>
    /\ yawn_states = <<>>
    /\ consecutive_eye_closed = 0
    /\ debug_info = EmptyDict
    /\ current_level = NoAttribute

update_metrics(eye_closed, yawning) ==
    LET cap == LEGACY_WINDOW_SECONDS * frame_rate IN
    /\ eye_states' = DequeAppend(eye_states, eye_closed, cap)
    /\ yawn_states' = DequeAppend(yawn_states, yawning, cap)
    /\ consecutive_eye_closed' =
           IF eye_closed THEN consecutive_eye_closed + 1 ELSE 0
    /\ debug_info' =
           [current_eye_closed |-> eye_closed,
            current_yawning |-> yawning,
            consecutive_frames |-> consecutive_eye_closed',
            total_eye_frames |-> Sum(eye_states'),
            total_yawn_frames |-> Sum(yawn_states'),
            window_size |-> Len(eye_states'),
            detected_classes |-> <<>>]
    /\ UNCHANGED frame_rate

\* lines 104-116: the hysteresis on the stored current_level
LegacyHysteresis(level, perclos, fom) ==
    IF level = NoAttribute THEN "NORMAL"
    ELSE IF level = "VERY TIRED" THEN
        (IF RLt(perclos, <<20, 100>>) /\ RLt(fom, <<12, 100>>)
         THEN "GETTING TIRED" ELSE level)
    ELSE IF level = "GETTING TIRED" THEN
        (IF RGt(perclos, <<22, 100>>) \/ RGt(fom, <<15, 100>>)
         THEN "VERY TIRED"
         ELSE IF RLt(perclos, <<12, 100>>) /\ RLt(fom, <<10, 100>>)
         THEN "NORMAL" ELSE level)
    ELSE level

\* mutant of LegacyLevel: the combined pathway is tested before the
\* critical one
LegacyLevel_CombinedFirst(perclos, fom, continuous_closure) ==
    IF RGt(perclos, PERCLOS_VERY_TIRED) \/ RGt(fom, FOM_THRESHOLD) THEN
        [level |-> "VERY TIRED", score |-> 75,
         message |-> <<"High fatigue detected">>]
    ELSE IF RGe(continuous_closure, RInt(EYE_CLOSURE_CRITICAL)) THEN
        [level |-> "VERY TIRED", score |-> 90,
         message |-> <<"CRITICAL: Eyes closed ", continuous_closure, "s!">>]
    ELSE IF \/ (RLe(PERCLOS_GETTING_TIRED, perclos)
                /\ RLe(perclos, PERCLOS_VERY_TIRED))
            \/ RGt(fom, FOM_THRESHOLD) THEN
        [level |-> "GETTING TIRED", score |-> 50,
         message |-> <<"Early fatigue signs">>]
    ELSE [level |-> "NORMAL", score |-> 25,
          message |-> <<"No fatigue detected">>]

\* lines 123-137: the tuple calculate_fatigue_level returns
LegacyLevel(perclos, fom, continuous_closure) ==
    IF RGe(continuous_closure, RInt(EYE_CLOSURE_CRITICAL)) THEN
        [level |-> "VERY TIRED", score |-> 90,
         message |-> <<"CRITICAL: Eyes closed ", continuous_closure, "s!">>]
    ELSE IF RGt(perclos, PERCLOS_VERY_TIRED) \/ RGt(fom, FOM_THRESHOLD) THEN
        [level |-> "VERY TIRED", score |-> 75,
         message |-> <<"High fatigue detected">>]
    ELSE IF \/ (RLe(PERCLOS_GETTING_TIRED, perclos)
                /\ RLe(perclos, PERCLOS_VERY_TIRED))
            \/ RGt(fom, FOM_THRESHOLD) THEN
        [level |-> "GETTING TIRED", score |-> 50,
         message |-> <<"Early fatigue signs">>]
    ELSE [level |-> "NORMAL", score |-> 25,
          message |-> <<"No fatigue detected">>]

\* the legacy calculate_fatigue_level on given field values: the value it
\* leaves in current_level, and either the tuple it returns or the KeyError
\* of line 120 when no update_metrics has filled debug_info
LegacyCalculation(eyes, yawns, n_eye, fr, info, level) ==
    LET perclos == calculate_perclos(eyes)
        fom == calculate_fom(yawns, fr)
        continuous_closure == get_continuous_eye_closure(n_eye, fr)
    IN  [current_level |-> LegacyHysteresis(level, perclos, fom),
         raised |-> IF info = EmptyDict
                    THEN "KeyError in FatigueCalculator.calculate_fatigue_level"
                    ELSE NoException,
         result |-> LegacyLevel(perclos, fom, continuous_closure),
         locals |-> [perclos |-> perclos, fom |-> fom,
                     continuous_closure |-> continuous_closure,
                     level_before |-> level]]

----------------------------------------------------------------------------
(* Environment: detector output, snapshots handed to the engine, clock     *)

DEFAULT_FRAME_RATE == 30
\* test_critical_alert: FatigueCalculator(frame_rate=10), range(60)
TEST_FRAME_RATE == 10
TEST_FRAMES == 60

\* (eye_closed, yawning, droopy_eyelids, droopy_face) of one frame, as
\* extract_detections returns them
Signals ==
    { <<FALSE, FALSE, FALSE, FALSE>>,
      <<TRUE,  FALSE, TRUE,  FALSE>>,
      <<FALSE, TRUE,  FALSE, TRUE>> }
\* the same for the monitoring loop
LiveSignals ==
    { <<FALSE, FALSE, FALSE, FALSE>>,
      <<TRUE,  FALSE, FALSE, FALSE>> }

\* frame_rate values PhysioScore is constructed with
FrameRates == {1, 2, 4}
\* those whose window is driven to its capacity and beyond; at the others the
\* window is driven past the first frames at which fom is computed
FullWindowRates == {1, 2}

FrameLimit(fr) ==
    IF fr \in FullWindowRates THEN window_frames(fr) + ExtraFrames
    ELSE MIN_YAWN_FRAMES + ExtraFrames
\* the same for the monitoring loop
LiveFrameRates == {1, 2, 3}

Snapshot(perclos, fom, closure, droopy) ==
    [perclos |-> perclos, fom |-> fom, continuous_closure_sec |-> closure,
     continuous_droopy_face_sec |-> RInt(0),
     droopy_eyelids_frequency |-> droopy, droopy_face_frequency |-> RInt(0)]

\* snapshots handed to calculate_fatigue_level when the engine is driven alone
AllClear    == Snapshot(RInt(0), RInt(0), RInt(0), RInt(0))
EarlyByRule == Snapshot(<<1, 5>>, RInt(0), RInt(0), RInt(0))
HighByRule  == Snapshot(RInt(1), RInt(2), RInt(0), RInt(1))
LongClosure == Snapshot(<<1, 10>>, RInt(0), RInt(11), RInt(0))
EarlyByScore == Snapshot(<<14, 100>>, <<16, 100>>, RInt(0), <<1, 2>>)
HighByScore == Snapshot(<<24, 100>>, <<16, 100>>, RInt(0), <<8, 10>>)

EngineSnapshots ==
    {AllClear, EarlyByRule, HighByRule, LongClosure, EarlyByScore, HighByScore}

\* ticks between two readings of time.time() in successive calls
Advances == {1, Seconds(3), Seconds(10), Seconds(300)}
\* ticks between the two readings of time.time() within one call
ReadGaps == {0, 1}
\* the same for the monitoring loop
LiveAdvances == {1, Seconds(5)}

NoResult == [level |-> "", score |-> 0, message |-> <<>>]

\* a PhysioScore and a FatigueCalculator as constructed, whose update calls
\* will get the droopy_face stream faces
TwinStart(faces) ==
    [faces |-> faces,
     eye_states |-> <<>>, yawn_states |-> <<>>,
     droopy_eyelids_states |-> <<>>, droopy_face_states |-> <<>>,
     consecutive_eye_closed |-> 0, consecutive_droopy_face |-> 0,
     startup_frames |-> 0, previous_alerts_count |-> 0,
     alert_history |-> <<>>, level_persistence_timer |-> 0,
     current_stable_level |-> "NORMAL",
     snapshot |-> EmptyDict, result |-> NoResult]

NoTwin == TwinStart("")

EnvInit ==
    /\ frame_count = 0
    /\ clock = 0
    /\ result = NoResult
    /\ call = NoCall
    /\ switches = 0
    /\ high_seen_at = -1
    /\ snapshot = EmptyDict
    /\ twin = NoTwin

\* the detector's previous output, kept in debug_info
LastSignals ==
    <<debug_info.current_eye_closed, debug_info.current_yawning,
      debug_info.current_droopy_eyelids, debug_info.current_droopy_face>>

Switched(sig) == IF frame_count > 0 /\ sig # LastSignals THEN 1 ELSE 0

----------------------------------------------------------------------------
(* The engine driven alone with arbitrary snapshots                        *)

Init ==
    /\ PhysioConstruct(DEFAULT_FRAME_RATE)
    /\ EngineInit(0) /\ EnvInit

EngineCall ==
    \E s \in EngineSnapshots, wait \in Advances, gap \in ReadGaps :
        /\ startup_frames < CALIBRATION_FRAMES - 1 + MaxCalls
        /\ calculate_fatigue_level(s, wait, gap)
        /\ UNCHANGED <<physio_vars, frame_count, switches, snapshot, raised, twin>>

Next == EngineCall

Spec == Init /\ [][Next]_vars

----------------------------------------------------------------------------
(* The window driven alone                                                 *)

InitWindow ==
    /\ \E fr \in FrameRates : PhysioConstruct(fr)
    /\ EngineInit(0) /\ EnvInit

Ingest ==
    \E sig \in Signals :
        /\ frame_count < FrameLimit(frame_rate)
        /\ switches + Switched(sig) <= MaxSwitches
        /\ update_vision_metrics(sig[1], sig[2], sig[3], sig[4])
        /\ frame_count' = frame_count + 1
        /\ switches' = switches + Switched(sig)
        /\ UNCHANGED <<engine_vars, clock, result, call, high_seen_at,
                       snapshot, raised, twin>>

NextWindow == Ingest

SpecWindow == InitWindow /\ [][NextWindow]_vars

----------------------------------------------------------------------------
(* live_monitoring (backend/main.py): window and engine in lockstep        *)

InitLive ==
    /\ \E fr \in LiveFrameRates : PhysioConstruct(fr)
    /\ EngineInit(0) /\ EnvInit

\* one iteration of the while loop, lines 94-101 and 152, on the detector
\* output sig, wait ticks after the previous one
LiveIteration(sig, wait) ==
    /\ frame_count < LiveMaxFrames
    /\ switches + Switched(sig) <= MaxSwitches
    /\ update_vision_metrics(sig[1], sig[2], sig[3], sig[4])
    /\ \E physio_scores \in
              {PhysioScores(eye_states', yawn_states',
                   droopy_eyelids_states', droopy_face_states',
                   consecutive_eye_closed', consecutive_droopy_face',
                   frame_rate')} :
           /\ snapshot' = physio_scores
           /\ calculate_fatigue_level(physio_scores, wait, 0)
    /\ frame_count' = frame_count + 1
    /\ switches' = switches + Switched(sig)
    /\ UNCHANGED raised

LiveFrame ==
    \E sig \in LiveSignals, wait \in LiveAdvances :
        LiveIteration(sig, wait) /\ UNCHANGED twin

NextLive == LiveFrame

SpecLive == InitLive /\ [][NextLive]_vars

----------------------------------------------------------------------------
(* live_monitoring on a detector that reports yawns                        *)

YawnSignals ==
    { <<FALSE, FALSE, FALSE, FALSE>>,
      <<FALSE, TRUE,  FALSE, FALSE>> }

YawnFrame ==
    \E sig \in YawnSignals, wait \in LiveAdvances :
        LiveIteration(sig, wait) /\ UNCHANGED twin

NextYawn == YawnFrame

SpecYawn == InitLive /\ [][NextYawn]_vars

----------------------------------------------------------------------------
(* live_monitoring run twice on the same eye, yawn and eyelid detections   *)
(* and the same clock readings, with two droopy_face streams               *)

TwinSignals ==
    { <<FALSE, FALSE, FALSE, FALSE>>,
      <<TRUE,  FALSE, TRUE,  TRUE>> }

TwinFrameRates == {1}

\* droopy_face streams of the second run, told by how they relate to the
\* first run's
TwinFaces == {"same", "never", "always"}

\* the droopy_face detection of the second run on the frame whose
\* detections in the first run are sig
TwinFace(faces, sig) ==
    IF faces = "same" THEN sig[4]
    ELSE IF faces = "never" THEN FALSE
    ELSE TRUE

InitTwin ==
    /\ \E fr \in TwinFrameRates : PhysioConstruct(fr)
    /\ EngineInit(0)
    /\ frame_count = 0 /\ clock = 0 /\ result = NoResult /\ call = NoCall
    /\ switches = 0 /\ high_seen_at = -1 /\ snapshot = EmptyDict
    /\ \E faces \in TwinFaces : twin = TwinStart(faces)

\* lines 97-101 in the second run: update_vision_metrics, get_physio_scores
\* and calculate_fatigue_level on its own window and engine, the clock
\* reading now
TwinIteration(sig, now) ==
    \E cap \in {window_frames(frame_rate)}, face \in {TwinFace(twin.faces, sig)} :
    \E eyes \in {DequeAppend(twin.eye_states, sig[1], cap)},
       yawns \in {DequeAppend(twin.yawn_states, sig[2], cap)},
       eyelids \in {DequeAppend(twin.droopy_eyelids_states, sig[3], cap)},
       faces \in {DequeAppend(twin.droopy_face_states, face, cap)},
       n_eye \in {IF sig[1] THEN twin.consecutive_eye_closed + 1 ELSE 0},
       n_face \in {IF face THEN twin.consecutive_droopy_face + 1 ELSE 0} :
    \E physio_scores \in
           {PhysioScores(eyes, yawns, eyelids, faces, n_eye, n_face,
                         frame_rate)} :
    \E updated \in
           {[twin EXCEPT !.eye_states = eyes, !.yawn_states = yawns,
                         !.droopy_eyelids_states = eyelids,
                         !.droopy_face_states = faces,
                         !.consecutive_eye_closed = n_eye,
                         !.consecutive_droopy_face = n_face,
                         !.snapshot = physio_scores,
                         !.startup_frames = twin.startup_frames + 1]} :
        IF InCalibration(twin.startup_frames + 1) THEN
            twin' = [updated EXCEPT
                        !.result =
                            [level |-> "CALIBRATING", score |-> 25,
                             message |-> <<"Calibrating... ",
                                 CALIBRATION_FRAMES - (twin.startup_frames + 1),
                                 " frames left">>]]
        ELSE
            \E out \in {Classification(physio_scores,
                            twin.previous_alerts_count,
                            twin.current_stable_level,
                            twin.level_persistence_timer,
                            twin.alert_history, now, now)} :
                twin' = [updated EXCEPT
                            !.current_stable_level = out.stable,
                            !.level_persistence_timer = out.timer,
                            !.alert_history = out.history,
                            !.previous_alerts_count = out.count,
                            !.result = out.result]

TwinFrame ==
    \E sig \in TwinSignals, wait \in LiveAdvances :
        /\ LiveIteration(sig, wait)
        /\ TwinIteration(sig, clock + wait)

NextTwin == TwinFrame

SpecTwin == InitTwin /\ [][NextTwin]_vars

----------------------------------------------------------------------------
(* PhysioScore constructed with an arbitrary frame_rate and then used      *)

ConfigFrameRates == {-1, 0, 1}

InitConfig ==
    /\ \E fr \in ConfigFrameRates : PhysioConstruct(fr)
    /\ EngineInit(0) /\ EnvInit

ConfigIngest ==
    \E sig \in Signals :
        /\ raised = NoException
        /\ frame_count < ConfigMaxFrames
        /\ update_vision_metrics(sig[1], sig[2], sig[3], sig[4])
        /\ frame_count' = frame_count + 1
        /\ switches' = switches + Switched(sig)
        /\ UNCHANGED <<engine_vars, clock, result, call, high_seen_at,
                       snapshot, raised, twin>>

ConfigSnapshot ==
    /\ raised = NoException
    /\ TakeSnapshot
    /\ UNCHANGED <<engine_vars, frame_count, clock, result, call, switches,
                   high_seen_at, twin>>

NextConfig == ConfigIngest \/ ConfigSnapshot

SpecConfig == InitConfig /\ [][NextConfig]_vars

----------------------------------------------------------------------------
(* The legacy calculator, driven as test_critical_alert and its own        *)
(* live_monitoring drive it: calculate_fatigue_level after update_metrics, *)
(* the first call after any number of updates                              *)

\* (eye_closed, yawning) of one frame
LegacySignals == {<<FALSE, FALSE>>, <<TRUE, FALSE>>, <<FALSE, TRUE>>}

\* 1, and the frame_rate of test_critical_alert
LegacyFrameRates == {1, TEST_FRAME_RATE}

LegacyFrameLimit(fr) ==
    IF fr = 1 THEN LegacyLongRun ELSE EYE_CLOSURE_CRITICAL * fr + ExtraFrames

LegacySwitched(sig) ==
    IF frame_count > 0
       /\ sig # <<debug_info.current_eye_closed, debug_info.current_yawning>>
    THEN 1 ELSE 0

InitLegacy ==
    /\ \E fr \in LegacyFrameRates : LegacyInit(fr)
    /\ droopy_eyelids_states = <<>> /\ droopy_face_states = <<>>
    /\ consecutive_droopy_face = 0
    /\ startup_frames = 0 /\ previous_alerts_count = 0
    /\ alert_history = <<>> /\ level_persistence_timer = 0
    /\ current_stable_level = "NORMAL"
    /\ EnvInit /\ raised = NoException

LegacyUnchanged ==
    UNCHANGED <<droopy_eyelids_states, droopy_face_states,
                consecutive_droopy_face, startup_frames,
                previous_alerts_count, alert_history,
                level_persistence_timer, current_stable_level, clock,
                high_seen_at, snapshot, twin>>

\* update_metrics before calculate_fatigue_level has ever been called; the
\* detector's output does not change before that first call
LegacyUpdate ==
    \E sig \in LegacySignals :
        /\ raised = NoException /\ current_level = NoAttribute
        /\ frame_count < LegacyFrameLimit(frame_rate)
        /\ LegacySwitched(sig) = 0
        /\ update_metrics(sig[1], sig[2])
        /\ frame_count' = frame_count + 1
        /\ UNCHANGED <<current_level, result, call, raised, switches>>
        /\ LegacyUnchanged

\* calculate_fatigue_level called for the first time
LegacyFirstCall ==
    /\ raised = NoException /\ current_level = NoAttribute
    /\ \E out \in {LegacyCalculation(eye_states, yawn_states,
                        consecutive_eye_closed, frame_rate, debug_info,
                        current_level)} :
           /\ current_level' = out.current_level
           /\ raised' = out.raised
           /\ IF out.raised = NoException
              THEN /\ result' = out.result
                   /\ call' = [NoCall EXCEPT !.classified = TRUE,
                                             !.physio_scores = out.locals]
              ELSE UNCHANGED <<result, call>>
    /\ UNCHANGED <<frame_rate, eye_states, yawn_states,
                   consecutive_eye_closed, debug_info, frame_count, switches>>
    /\ LegacyUnchanged

\* one iteration of the loops of lines 161-163 and 230-231
LegacyFrame ==
    \E sig \in LegacySignals :
        /\ raised = NoException
        /\ frame_count < LegacyFrameLimit(frame_rate)
        /\ switches + LegacySwitched(sig) <= MaxSwitches
        /\ update_metrics(sig[1], sig[2])
        /\ \E out \in {LegacyCalculation(eye_states', yawn_states',
                            consecutive_eye_closed', frame_rate', debug_info',
                            current_level)} :
               /\ current_level' = out.current_level
               /\ result' = out.result
               /\ call' = [NoCall EXCEPT !.classified = TRUE,
                                         !.physio_scores = out.locals]
        /\ frame_count' = frame_count + 1
        /\ switches' = switches + LegacySwitched(sig)
        /\ UNCHANGED raised
        /\ LegacyUnchanged

NextLegacy == LegacyUpdate \/ LegacyFirstCall \/ LegacyFrame

SpecLegacy == InitLegacy /\ [][NextLegacy]_vars

----------------------------------------------------------------------------
(* _rule_based_classification applied to arbitrary arguments               *)

RulePerclos  == {RInt(0), <<14, 100>>, <<15, 100>>, <<24, 100>>, <<25, 100>>}
RuleFom      == {RInt(0), <<16, 100>>, <<17, 100>>}
RuleClosure  == {RInt(0), RInt(10), RInt(11)}
RuleDroopy   == {RInt(0), <<5, 10>>, <<6, 10>>, <<8, 10>>, <<9, 10>>}
RuleSleep    == {RInt(1), RInt(2), RInt(3), RInt(4), sleep_hours}
RuleReaction == {reaction_time_ms, 350, 351, 500, 501}
RuleAlerts   == 0..MaxAlerts

RuleArguments(perclos, fom, eye_closure, droopy_eyelids, sleep, reaction_ms, alerts) ==
    [perclos |-> perclos, fom |-> fom, eye_closure |-> eye_closure,
     droopy_eyelids |-> droopy_eyelids, sleep |-> sleep,
     reaction_ms |-> reaction_ms, alerts |-> alerts]

\* the locals of a call of _rule_based_classification with arguments a
RuleCall(a) ==
    [NoCall EXCEPT
        !.physio_scores = Snapshot(a.perclos, a.fom, a.eye_closure,
                                   a.droopy_eyelids),
        !.sleep_hours = a.sleep,
        !.reaction_time_ms = a.reaction_ms,
        !.previous_alerts = a.alerts,
        !.rule_level =
            rule_based_classification(a.perclos, a.fom, a.eye_closure,
                a.droopy_eyelids, a.sleep, a.reaction_ms, a.alerts)]

\* the arguments of the latest call
RuleArgumentsOf(c) ==
    RuleArguments(c.physio_scores.perclos, c.physio_scores.fom,
                  c.physio_scores.continuous_closure_sec,
                  c.physio_scores.droopy_eyelids_frequency,
                  c.sleep_hours, c.reaction_time_ms, c.previous_alerts)

InitRules ==
    /\ PhysioConstruct(DEFAULT_FRAME_RATE)
    /\ EngineInit(0)
    /\ frame_count = 0 /\ clock = 0 /\ result = NoResult /\ switches = 0
    /\ high_seen_at = -1 /\ snapshot = EmptyDict /\ twin = NoTwin
    /\ call = RuleCall(RuleArguments(RInt(0), RInt(0), RInt(0), RInt(0),
                                     sleep_hours, reaction_time_ms, 0))

\* a further call whose arguments differ from the latest call's in one place
RuleProbe ==
    \E a \in {RuleArgumentsOf(call)} :
        /\ \/ \E x \in RulePerclos : call' = RuleCall([a EXCEPT !.perclos = x])
           \/ \E x \in RuleFom : call' = RuleCall([a EXCEPT !.fom = x])
           \/ \E x \in RuleClosure :
                  call' = RuleCall([a EXCEPT !.eye_closure = x])
           \/ \E x \in RuleDroopy :
                  call' = RuleCall([a EXCEPT !.droopy_eyelids = x])
           \/ \E x \in RuleSleep : call' = RuleCall([a EXCEPT !.sleep = x])
           \/ \E x \in RuleReaction :
                  call' = RuleCall([a EXCEPT !.reaction_ms = x])
           \/ \E x \in RuleAlerts : call' = RuleCall([a EXCEPT !.alerts = x])
        /\ UNCHANGED <<physio_vars, engine_vars, frame_count, clock, result,
                       switches, high_seen_at, snapshot, raised, twin>>

NextRules == RuleProbe

SpecRules == InitRules /\ [][NextRules]_vars

----------------------------------------------------------------------------
(* The engine called without end on frames that arrive at most 1 s apart   *)
(* once the first alert is recorded                                        *)

SteadySnapshots == {AllClear, EarlyByRule, HighByRule}

\* ticks between the clock readings of successive calls: one tick or 1 s
\* once an alert is recorded, up to 3 s before
SteadyAdvances(count) ==
    IF count >= 1 THEN {1, Seconds(1)} ELSE {1, Seconds(3)}

\* the first classifying call, the calls within which a stream of frames one
\* tick apart has its third record appended, and SettledCalls more
SteadyMaxFrames ==
    CALIBRATION_FRAMES + 2 * (Seconds(ALERT_COOLDOWN) + 1) + SettledCalls

\* the run is cut off SettledCalls after the third record is due, or after
\* the first classifying call if it recorded nothing
SteadyRunning ==
    /\ startup_frames < SteadyMaxFrames
    /\ \/ previous_alerts_count >= 1
       \/ startup_frames < CALIBRATION_FRAMES

SteadyCall ==
    \E s \in SteadySnapshots, wait \in SteadyAdvances(previous_alerts_count) :
        /\ SteadyRunning
        /\ calculate_fatigue_level(s, wait, 0)
        /\ UNCHANGED <<physio_vars, frame_count, switches, snapshot, raised, twin>>

NextSteady == SteadyCall

\* a call of calculate_fatigue_level was made: every call, and no other
\* step, adds one to startup_frames
FrameProcessed == SteadyRunning /\ startup_frames' = startup_frames + 1

\* `while True` of live_monitoring: while frames arrive the next call is made
SpecSteady == Init /\ [][NextSteady]_vars /\ WF_startup_frames(FrameProcessed)

----------------------------------------------------------------------------
(* The proposed level of _hybrid_decision_with_persistence, lines 106-120, *)
(* derived from arbitrary rule levels and equation scores                  *)

\* equation scores in hundredths, 0.00 to 1.00
ProposedScores == {Rat(k, 100) : k \in 0..100}

\* the locals of a call with the given rule level and equation score
ProposedCall(rule_level, equation_score) ==
    [NoCall EXCEPT !.rule_level = rule_level,
                   !.equation_score = equation_score,
                   !.proposed_level = ProposedLevel(rule_level, equation_score)]

InitProposed ==
    /\ PhysioConstruct(DEFAULT_FRAME_RATE)
    /\ EngineInit(0)
    /\ frame_count = 0 /\ clock = 0 /\ result = NoResult /\ switches = 0
    /\ high_seen_at = -1 /\ snapshot = EmptyDict /\ twin = NoTwin
    /\ call = ProposedCall("NORMAL", RInt(0))

ProposedProbe ==
    /\ \E rule_level \in Levels, equation_score \in ProposedScores :
           call' = ProposedCall(rule_level, equation_score)
    /\ UNCHANGED <<physio_vars, engine_vars, frame_count, clock, result,
                   switches, high_seen_at, snapshot, raised, twin>>

NextProposed == ProposedProbe

SpecProposed == InitProposed /\ [][NextProposed]_vars

----------------------------------------------------------------------------
(* Properties                                                              *)

Last(seq) == seq[Len(seq)]

\* the emergency condition as the specification words it, read off the
\* snapshot and the rule level of the latest call
SevereSignal(c) ==
    \/ c.rule_level = "HIGH FATIGUE"
    \/ RGt(c.physio_scores.continuous_closure_sec, RInt(10))

\* C1: each of the first 30 calls on a fresh engine returns CALIBRATING with
\* a "frames left" number one lower than the call before, and the 31st call
\* is the first that classifies.
C1_FirstThirtyCallsCalibrate ==
    /\ (startup_frames >= 1 /\ startup_frames <= 30) =>
           /\ result.level = "CALIBRATING"
           /\ result.message[2] = 30 - startup_frames
    /\ startup_frames = 31 => result.level \in Levels

\* C2: a classifying call whose rule level is HIGH FATIGUE or whose
\* continuous closure exceeds 10 s returns the proposed level, leaves it in
\* current_stable_level and sets level_persistence_timer to the time read,
\* whatever time has passed since the timer was set.
C2_EmergencyOverride ==
    (call.classified /\ SevereSignal(call)) =>
        /\ result.level = call.proposed_level
        /\ current_stable_level = call.proposed_level
        /\ level_persistence_timer = call.hybrid_time

\* C2 witness: a severe snapshot adopted from NORMAL before any dwell time
\* for HIGH FATIGUE has passed.
C2_Witness ==
    /\ call.classified /\ SevereSignal(call)
    /\ call.stable_before = "NORMAL"
    /\ call.hybrid_time - call.timer_before < Seconds(5)
    /\ result.level = "HIGH FATIGUE"
    /\ current_stable_level = "HIGH FATIGUE"

ClosureAboveTen ==
    /\ frame_count > 0
    /\ consecutive_eye_closed > 10 * frame_rate

\* C3 as stated: in the monitoring loop, for any positive frame_rate, every
\* frame at which continuous closure exceeds 10 s emits HIGH FATIGUE.
C3_AnyFrameRate ==
    ClosureAboveTen => result.level = "HIGH FATIGUE"

\* C3 amended: in the monitoring loop every frame at which continuous closure
\* exceeds 10 s and which is not answered CALIBRATING emits HIGH FATIGUE, and
\* for frame_rate >= 3 that is every frame at which it exceeds 10 s.
C3_OutsideCalibration ==
    (ClosureAboveTen /\ (frame_rate >= 3 \/ result.level # "CALIBRATING")) =>
        result.level = "HIGH FATIGUE"

\* C3 witness: at frame_rate 3 the closure passes 10 s and HIGH FATIGUE is
\* emitted although less than the 5 s dwell has passed since the timer was set.
C3_Witness ==
    /\ ClosureAboveTen /\ frame_rate = 3
    /\ consecutive_eye_closed = 10 * frame_rate + 1
    /\ call.hybrid_time - call.timer_before < Seconds(5)
    /\ result.level = "HIGH FATIGUE"

\* C4: from stable NORMAL, a frame proposing EARLY FATIGUE without emergency
\* override leaves the output NORMAL with confidence MEDIUM until such
\* proposals have been sustained for 3 s; in particular the first frame of a
\* run of such proposals (the frame before did not propose EARLY FATIGUE)
\* never changes the output.
C4_EarlyNeedsSustainedReadings ==
    [][ ( /\ call'.classified
          /\ call'.stable_before = "NORMAL"
          /\ call'.proposed_level = "EARLY FATIGUE"
          /\ ~SevereSignal(call')
          /\ call.proposed_level # "EARLY FATIGUE" )
        => ( /\ result'.level = "NORMAL"
             /\ call'.confidence = "MEDIUM" ) ]_vars

C6_AlertCooldown ==
    /\ [](/\ \A i \in DOMAIN alert_history : alert_history[i][1] # "NORMAL"
          /\ \A i \in 1..(Len(alert_history) - 1) :
                 alert_history[i + 1][2] - alert_history[i][2] > Seconds(2))
    /\ [][ IF /\ call'.updated
              /\ call'.update_level # "NORMAL"
              /\ \/ alert_history = <<>>
                 \/ call'.update_time - Last(alert_history)[2] > Seconds(2)
           THEN LET appended == Append(alert_history,
                                   <<call'.update_level, call'.update_time>>)
                IN \E k \in 1..Len(appended) :
                       alert_history' = SubSeq(appended, k, Len(appended))
           ELSE alert_history' = alert_history ]_vars

\* C6 witness: two records were appended and a further non-NORMAL emission
\* within the cooldown of the second left the history as it was.
C6_Witness ==
    /\ Len(alert_history) = 2
    /\ call.updated /\ call.update_level = "EARLY FATIGUE"
    /\ call.update_time - Last(alert_history)[2] > 0
    /\ call.update_time - Last(alert_history)[2] <= Seconds(2)

RecentRecords(history, now) ==
    {i \in DOMAIN history : now - history[i][2] < Seconds(300)}

\* C7: every classifying call, appending or not, leaves no record of 300 s
\* or older in the history and sets previous_alerts_count to its length, so
\* the count a call reads is the number of records within the 300 s before it.
C7_PrunedEveryFrame ==
    [][ call'.classified =>
          /\ RecentRecords(alert_history', clock') = DOMAIN alert_history'
          /\ previous_alerts_count' = Len(alert_history')
          /\ call'.previous_alerts =
                 Cardinality(RecentRecords(alert_history, call'.hybrid_time))
      ]_vars

\* C8: after a call has returned a level other than CALIBRATING, the next
\* call, and so every later call, does not return CALIBRATING.
C8_CalibrationNeverReentered ==
    [][ (result.level # "" /\ result.level # "CALIBRATING")
        => result'.level # "CALIBRATING" ]_vars

\* C8 witness: two calls past calibration, both classified.
C8_Witness ==
    /\ startup_frames >= 31
    /\ result.level \in Levels

Capacity == 30 * frame_rate

\* C9: the four signal sequences have one length, never above
\* 30 * frame_rate; an ingest appends the frame's four signals, and evicts the
\* oldest entry of each sequence exactly when it was at capacity.
C9_RingBuffer ==
    /\ [](/\ Len(eye_states) = Len(yawn_states)
          /\ Len(eye_states) = Len(droopy_eyelids_states)
          /\ Len(eye_states) = Len(droopy_face_states)
          /\ Len(eye_states) <= Capacity
          /\ Len(eye_states) =
                 IF frame_count < Capacity THEN frame_count ELSE Capacity)
    /\ [][ LET kept(q) == IF Len(q) = Capacity THEN Tail(q) ELSE q
           IN /\ eye_states' =
                     Append(kept(eye_states), debug_info'.current_eye_closed)
              /\ yawn_states' =
                     Append(kept(yawn_states), debug_info'.current_yawning)
              /\ droopy_eyelids_states' =
                     Append(kept(droopy_eyelids_states),
                            debug_info'.current_droopy_eyelids)
              /\ droopy_face_states' =
                     Append(kept(droopy_face_states),
                            debug_info'.current_droopy_face) ]_vars

\* C9 witness: the window is full, a further frame has been ingested and the
\* entry it evicted differed from the one now oldest.
C9_Witness ==
    /\ frame_count = Capacity + 1
    /\ Len(eye_states) = Capacity
    /\ switches = 1
    /\ eye_states[1] # eye_states[Capacity]

\* closed-eye frames among the first n of the window
ClosedAmong(n) == Cardinality({i \in 1..n : eye_states[i]})

\* C10: perclos is the number of true entries of the eye sequence over its
\* length, 0 for an empty window, and lies in [0, 1]; fom is never negative.
C10_PerclosRange ==
    \A perclos \in {calculate_perclos(eye_states)},
       fom \in {calculate_fom(yawn_states, frame_rate)} :
       /\ perclos[2] > 0 /\ fom[2] > 0
       /\ Len(eye_states) = 0 => perclos[1] = 0
       /\ Len(eye_states) > 0 =>
              perclos[1] * Len(eye_states) =
                  ClosedAmong(Len(eye_states)) * perclos[2]
       /\ 0 <= perclos[1] /\ perclos[1] <= perclos[2]
       /\ fom[1] >= 0

\* C10 witness: a window with both open and closed frames, perclos strictly
\* between 0 and 1, and a yawn counted by fom.
C10_Witness ==
    LET scores == get_physio_scores
    IN /\ 0 < scores.perclos[1] /\ scores.perclos[1] < scores.perclos[2]
       /\ scores.fom[1] > 0

\* number of true entries at the end of the first n entries of s
RECURSIVE TrueBefore(_, _)
TrueBefore(s, n) ==
    IF n = 0 \/ ~s[n] THEN 0 ELSE 1 + TrueBefore(s, n - 1)

\* number of true entries at the end of s
TrailingTrue(s) == TrueBefore(s, Len(s))

\* the run of true frames ingested since the last false frame, where the
\* state determines it: the window still holds a false frame or has never
\* evicted, or the detector's output has never changed
RunDetermined(s) ==
    \/ frame_count <= Capacity
    \/ switches = 0
    \/ TrailingTrue(s) < Len(s)

RunLength(s) ==
    IF frame_count <= Capacity THEN TrailingTrue(s)
    ELSE LET run == TrailingTrue(s)
         IN IF run < Len(s) THEN run ELSE frame_count

\* C11: continuous_closure_sec is L / frame_rate, L being the number of
\* closed-eye frames ingested since the last open-eye frame (0 if the latest
\* frame was open), also when L exceeds the window's capacity; the same for
\* continuous_droopy_face_sec and the droopy_face signal.
C11_ContinuousRun ==
    LET closure == get_continuous_eye_closure(consecutive_eye_closed, frame_rate)
        droopy == get_continuous_droopy_face(consecutive_droopy_face, frame_rate)
    IN /\ closure[2] > 0 /\ droopy[2] > 0
       /\ RunDetermined(eye_states) =>
              closure[1] * frame_rate = RunLength(eye_states) * closure[2]
       /\ RunDetermined(droopy_face_states) =>
              droopy[1] * frame_rate = RunLength(droopy_face_states) * droopy[2]
       /\ (frame_count > 0 /\ ~debug_info.current_eye_closed) => closure[1] = 0
       /\ (frame_count > 0 /\ ~debug_info.current_droopy_face) => droopy[1] = 0

\* C11 witness: a run of closed-eye frames longer than the window's capacity,
\* reported with its full length.
C11_Witness ==
    /\ frame_count > Capacity
    /\ switches = 0 /\ debug_info.current_eye_closed
    /\ get_continuous_eye_closure(consecutive_eye_closed, frame_rate)
           = Rat(frame_count, frame_rate)

\* rising edges of the window: a true entry that is the first entry or
\* follows a false one
RisingEdges(s) ==
    Cardinality({i \in 1..Len(s) : s[i] /\ (i = 1 \/ ~s[i - 1])})

FomFloorReached ==
    /\ Len(yawn_states) >= 30 /\ Len(yawn_states) < 10 * frame_rate
    /\ calculate_fom(yawn_states, frame_rate) = RInt(6)

\* n = int(100 * x) for a rational x >= 0, stated without a division
IsIntOfHundredTimes(n, x) ==
    /\ n * x[2] <= 100 * x[1]
    /\ 100 * x[1] < (n + 1) * x[2]

\* the equation score of the snapshot the latest call was given
SnapshotScore ==
    fatigue_score(call.physio_scores.perclos, call.physio_scores.fom,
                  call.physio_scores.droopy_eyelids_frequency)

\* C13 as stated: every call, calibrating or classifying, returns
\* int(equation_score * 100) of its snapshot, an integer in 0..100.
C13_ScoreOnEveryCall ==
    (call.calibrating \/ call.classified) =>
        /\ IsIntOfHundredTimes(result.score, SnapshotScore)
        /\ result.score \in 0..100

\* C13 amended: every classifying call returns int(equation_score * 100) of
\* its snapshot, whether the level it emits is held back or accepted, and
\* every calibrating call returns 25; both are integers in 0..100.
C13_ScoreOfClassifyingCalls ==
    /\ call.classified =>
           /\ IsIntOfHundredTimes(result.score, SnapshotScore)
           /\ call.equation_score = SnapshotScore
    /\ call.calibrating => result.score = 25
    /\ (call.calibrating \/ call.classified) => result.score \in 0..100

\* C13 witness: a level held back by the dwell, returned with the score of
\* the snapshot that proposed the other level.
C13_Witness ==
    /\ call.classified /\ call.confidence = "MEDIUM"
    /\ result.level = "NORMAL" /\ call.proposed_level = "EARLY FATIGUE"
    /\ call.physio_scores = EarlyByScore
    /\ result.score = 53

\* C14: a PhysioScore constructed with a zero or negative frame_rate fails at
\* construction; no later ingest or snapshot is the first to fail.
C14_FailsAtConstruction ==
    /\ frame_rate <= 0 => raised = "ValueError in PhysioScore.__init__"
    /\ raised # NoException => (frame_count = 0 /\ snapshot = EmptyDict)
    /\ raised # NoException => raised = "ValueError in PhysioScore.__init__"

\* frame_rate = 0: construction and four ingests succeeded, the first
\* snapshot raised
ZeroRateFailsLate ==
    /\ frame_rate = 0 /\ frame_count = ConfigMaxFrames
    /\ raised = "ZeroDivisionError in PhysioScore.get_continuous_eye_closure"

\* the latest step called the legacy calculate_fatigue_level on the fields
\* as they are now
LegacyAnswered == call.classified /\ raised = NoException

\* C15: whenever the legacy calculate_fatigue_level is called with a run of
\* closed-eye frames of at least 5.0 s (consecutive_eye_closed / frame_rate
\* >= 5.0), it returns VERY TIRED with score 90 whatever PERCLOS, FOM and the
\* stored current_level are; at frame_rate 10 with closed frames only, called
\* after every frame, the first such answer is that of the 50th frame, which
\* is within the 60 frames of test_critical_alert.
C15_CriticalClosure ==
    /\ (LegacyAnswered /\ consecutive_eye_closed >= 5 * frame_rate) =>
           (result.level = "VERY TIRED" /\ result.score = 90)
    /\ ( /\ LegacyAnswered /\ frame_rate = 10
         /\ switches = 0 /\ debug_info.current_eye_closed ) =>
           /\ (result.level = "VERY TIRED" /\ result.score = 90)
                  <=> frame_count >= 50
           /\ 50 <= TEST_FRAMES

\* the first call of the legacy calculate_fatigue_level, current_level not
\* yet an attribute, answered by the critical pathway
CriticalOnFirstCall ==
    /\ LegacyAnswered /\ call.physio_scores.level_before = NoAttribute
    /\ result.score = 90

\* C15 witness: a 5 s closure at the end of a window whose PERCLOS and FOM
\* by themselves give NORMAL, answered VERY TIRED with score 90.
C15_Witness ==
    /\ LegacyAnswered
    /\ consecutive_eye_closed >= 5 * frame_rate
    /\ RLt(call.physio_scores.perclos, <<15, 100>>)
    /\ call.physio_scores.fom = RInt(0)
    /\ result.level = "VERY TIRED" /\ result.score = 90

\* the run of test_critical_alert at its 50th frame
TestCriticalAlertPasses ==
    /\ LegacyAnswered /\ frame_rate = TEST_FRAME_RATE /\ switches = 0
    /\ debug_info.current_eye_closed /\ frame_count = 50
    /\ result.level = "VERY TIRED" /\ result.score = 90

\* the dwell times as the specification states them, in clock ticks
StatedDwell(level) ==
    IF level = "HIGH FATIGUE" THEN 5 * TicksPerSecond
    ELSE IF level = "EARLY FATIGUE" THEN 3 * TicksPerSecond
    ELSE 10 * TicksPerSecond

\* time between the timer's value before the latest call and the time that
\* call read
Elapsed(c) == c.hybrid_time - c.timer_before

Waiting(c) ==
    /\ c.classified /\ ~SevereSignal(c)
    /\ c.proposed_level # c.stable_before
    /\ Elapsed(c) < StatedDwell(c.proposed_level)

\* C17: a call that is held back leaves current_stable_level and
\* level_persistence_timer as they were and returns the stable level with
\* confidence MEDIUM.
C17_WaitingChangesNothing ==
    Waiting(call) =>
        /\ current_stable_level = call.stable_before
        /\ level_persistence_timer = call.timer_before
        /\ result.level = call.stable_before
        /\ call.confidence = "MEDIUM"

\* C17 witness: HIGH FATIGUE proposed by the score 3 s or more after the
\* timer was set, held back, the timer still at its old value.
C17_Witness ==
    /\ Waiting(call)
    /\ call.proposed_level = "HIGH FATIGUE"
    /\ Elapsed(call) >= 3 * TicksPerSecond
    /\ level_persistence_timer = call.timer_before
    /\ result.level = call.stable_before

\* a classifying call whose proposal matches the stable level, no override
Matching(c) ==
    /\ c.classified /\ ~SevereSignal(c)
    /\ c.proposed_level = c.stable_before

\* C18: a call whose proposed level equals current_stable_level (no
\* override) sets level_persistence_timer to the time it read and leaves the
\* level; so when the call after such a matching reading accepts a different
\* level, at least the full dwell of that level has passed since the
\* matching reading.
C18_MatchRestartsDwell ==
    /\ [](Matching(call) =>
             /\ level_persistence_timer = call.hybrid_time
             /\ current_stable_level = call.stable_before
             /\ result.level = call.stable_before)
    /\ [][ ( /\ Matching(call)
             /\ call'.classified /\ ~SevereSignal(call')
             /\ current_stable_level' # current_stable_level )
           => call'.hybrid_time - call.hybrid_time
                  >= StatedDwell(current_stable_level') ]_vars

\* C18 witness: EARLY FATIGUE is proposed 3 s or more after the engine was
\* constructed with level NORMAL, but is held back because an all-clear
\* reading in between restarted the dwell.
C18_Witness ==
    /\ Waiting(call)
    /\ call.stable_before = "NORMAL" /\ alert_history = <<>>
    /\ call.proposed_level = "EARLY FATIGUE"
    /\ call.hybrid_time >= 3 * TicksPerSecond
    /\ call.timer_before > 0

\* C19: the alert count the rule classification of a call uses is the count
\* the call before left (so an all-clear snapshot is ruled by that count
\* alone), and a record the call appends carries the level the call emitted
\* and a time not before the time at which that level was decided.
C19_CountLagsOneFrame ==
    [][ call'.classified =>
          /\ call'.previous_alerts = previous_alerts_count
          /\ call'.physio_scores = AllClear =>
                 call'.rule_level =
                     IF previous_alerts_count >= 3 THEN "HIGH FATIGUE"
                     ELSE IF previous_alerts_count >= 1 THEN "EARLY FATIGUE"
                     ELSE "NORMAL"
          /\ alert_history' # alert_history =>
                 /\ Last(alert_history')[1] = result'.level
                 /\ Last(alert_history')[2] >= call'.hybrid_time
      ]_vars

\* C19 witness: the call that wrote the first record was itself ruled NORMAL
\* with count 0; the record counts from the next call on.
C19_Witness ==
    /\ call.classified
    /\ call.previous_alerts = 0 /\ call.rule_level = "NORMAL"
    /\ result.level = "EARLY FATIGUE"
    /\ previous_alerts_count = 1 /\ Len(alert_history) = 1

\* the ordered rule list as the specification states it, on numbers given
\* in hundredths (perclos, fom, droopy), halves (sleep) and units
StatedRuleLevel(a) ==
    LET perclos == a.perclos  fom == a.fom  closure == a.eye_closure
        droopy == a.droopy_eyelids  sleep == a.sleep
        reaction == a.reaction_ms  alerts == a.alerts
        first == \/ closure[1] > 10 * closure[2]
                 \/ 100 * perclos[1] > 24 * perclos[2]
                 \/ 100 * fom[1] > 16 * fom[2]
                 \/ 10 * droopy[1] > 8 * droopy[2]
                 \/ sleep[1] < 2 * sleep[2]
                 \/ reaction > 500
                 \/ alerts >= 3
        second == \/ (/\ 100 * perclos[1] >= 15 * perclos[2]
                      /\ 100 * perclos[1] <= 24 * perclos[2])
                  \/ 10 * droopy[1] > 5 * droopy[2]
                  \/ (sleep[1] >= 2 * sleep[2] /\ sleep[1] < 4 * sleep[2])
                  \/ (reaction > 350 /\ reaction <= 500)
                  \/ alerts >= 1
    IN  CASE first -> "HIGH FATIGUE"
          [] ~first /\ second -> "EARLY FATIGUE"
          [] ~first /\ ~second /\ alerts >= 4 -> "HIGH FATIGUE"
          [] ~first /\ ~second /\ alerts < 4 /\ alerts >= 2 -> "EARLY FATIGUE"
          [] OTHER -> "NORMAL"

\* C20: for every argument list _rule_based_classification returns the level
\* of the first matching rule of the stated ordered list.
C20_FirstMatchingRule ==
    call.rule_level # "" =>
        call.rule_level = StatedRuleLevel(RuleArgumentsOf(call))

\* C20 witness: every argument sits on a threshold of the first list without
\* exceeding it (perclos 0.24, fom 0.16, closure 10, sleep 4, two alerts), so
\* the first list does not match and the second does.
C20_Witness ==
    /\ RuleArgumentsOf(call) =
           RuleArguments(<<24, 100>>, <<16, 100>>, RInt(10), <<5, 10>>,
                         RInt(4), 350, 2)
    /\ call.rule_level = "EARLY FATIGUE"

\* NORMAL < EARLY FATIGUE < HIGH FATIGUE
LevelRank(level) ==
    IF level = "HIGH FATIGUE" THEN 2
    ELSE IF level = "EARLY FATIGUE" THEN 1 ELSE 0

\* score > h / 100
AboveHundredths(score, h) == 100 * score[1] > h * score[2]

\* C21: rule HIGH FATIGUE proposes HIGH FATIGUE; rule EARLY FATIGUE proposes
\* HIGH FATIGUE if the score is above 0.65 and EARLY FATIGUE otherwise; rule
\* NORMAL proposes HIGH FATIGUE above 0.70, else EARLY FATIGUE above 0.50,
\* else NORMAL; the proposed level is never below the rule level.
C21_ProposedLevel ==
    call.proposed_level # "" =>
        /\ call.rule_level = "HIGH FATIGUE" =>
               call.proposed_level = "HIGH FATIGUE"
        /\ call.rule_level = "EARLY FATIGUE" =>
               call.proposed_level =
                   IF AboveHundredths(call.equation_score, 65)
                   THEN "HIGH FATIGUE" ELSE "EARLY FATIGUE"
        /\ call.rule_level = "NORMAL" =>
               call.proposed_level =
                   IF AboveHundredths(call.equation_score, 70)
                   THEN "HIGH FATIGUE"
                   ELSE IF AboveHundredths(call.equation_score, 50)
                   THEN "EARLY FATIGUE" ELSE "NORMAL"
        /\ LevelRank(call.proposed_level) >= LevelRank(call.rule_level)

\* C21 witness: rule NORMAL with a score of exactly 0.70 proposes EARLY
\* FATIGUE, the score not being above 0.70.
C21_Witness ==
    /\ call.rule_level = "NORMAL"
    /\ call.equation_score = <<7, 10>>
    /\ call.proposed_level = "EARLY FATIGUE"

\* C22: a call that returns CALIBRATING adds exactly one to the startup
\* frame counter and leaves current_stable_level, level_persistence_timer,
\* alert_history and previous_alerts_count as they were, whatever the
\* snapshot contains.
C22_CalibratingCallChangesCounterOnly ==
    [][(call'.calibrating /\ result'.level = "CALIBRATING") =>
           /\ startup_frames' = startup_frames + 1
           /\ UNCHANGED <<current_stable_level, level_persistence_timer,
                          alert_history, previous_alerts_count>>]_vars

\* C22 witness: the last calibrating call was handed a snapshot with 11 s of
\* continuous closure, and the engine is as constructed but for the counter.
C22_Witness ==
    /\ call.calibrating /\ result.level = "CALIBRATING"
    /\ call.physio_scores = LongClosure
    /\ startup_frames = CALIBRATION_FRAMES - 1
    /\ current_stable_level = "NORMAL"
    /\ alert_history = <<>> /\ previous_alerts_count = 0

\* the engine's last call emitted EARLY FATIGUE or HIGH FATIGUE
EmittedAlert == result.level \in {"EARLY FATIGUE", "HIGH FATIGUE"}

MatchesRuleOne(a) ==
    \/ a.eye_closure[1] > 10 * a.eye_closure[2]
    \/ 100 * a.perclos[1] > 24 * a.perclos[2]
    \/ 100 * a.fom[1] > 16 * a.fom[2]
    \/ 10 * a.droopy_eyelids[1] > 8 * a.droopy_eyelids[2]
    \/ a.sleep[1] < 2 * a.sleep[2]
    \/ a.reaction_ms > 500
    \/ a.alerts >= 3

\* the second rule list matches the arguments by a test other than fom > 0.16
MatchesRuleTwoBesidesFom(a) ==
    \/ (/\ 100 * a.perclos[1] >= 15 * a.perclos[2]
        /\ 100 * a.perclos[1] <= 24 * a.perclos[2])
    \/ 10 * a.droopy_eyelids[1] > 5 * a.droopy_eyelids[2]
    \/ (a.sleep[1] >= 2 * a.sleep[2] /\ a.sleep[1] < 4 * a.sleep[2])
    \/ (a.reaction_ms > 350 /\ a.reaction_ms <= 500)
    \/ a.alerts >= 1

\* the returned level with the two alert-escalation branches and the fom test
\* of the second list taken out
LevelWithoutIdleTests(a) ==
    IF MatchesRuleOne(a) THEN "HIGH FATIGUE"
    ELSE IF MatchesRuleTwoBesidesFom(a) THEN "EARLY FATIGUE"
    ELSE "NORMAL"

\* C25: _rule_based_classification returns NORMAL only with an alert count
\* of 0, and neither the branches alerts >= 4 and alerts >= 2 nor the test
\* fom > 0.16 of the second list ever decides the level: whenever one of
\* them holds, an earlier test has already matched, so the level is the one
\* returned without them.
C25_IdleTestsNeverDecide ==
    call.rule_level # "" =>
        \A a \in {RuleArgumentsOf(call)} :
            /\ call.rule_level = "NORMAL" => a.alerts = 0
            /\ a.alerts >= 2 =>
                   MatchesRuleOne(a) \/ MatchesRuleTwoBesidesFom(a)
            /\ 100 * a.fom[1] > 16 * a.fom[2] => MatchesRuleOne(a)
            /\ call.rule_level = LevelWithoutIdleTests(a)

\* C25 witness: four alerts with every other argument clear give HIGH
\* FATIGUE, by alerts >= 3 of the first list.
C25_Witness ==
    /\ RuleArgumentsOf(call) =
           RuleArguments(RInt(0), RInt(0), RInt(0), RInt(0), sleep_hours,
                         reaction_time_ms, 4)
    /\ call.rule_level = "HIGH FATIGUE"

\* C26: current_stable_level is always NORMAL, EARLY FATIGUE or HIGH FATIGUE;
\* after every classifying call the returned level equals it; and whenever
\* the emergency override fires the rule level is HIGH FATIGUE (continuous
\* closure above 10 s is in the first rule list) and HIGH FATIGUE is adopted.
C26_ReturnedLevelIsStableLevel ==
    /\ current_stable_level \in Levels
    /\ call.classified =>
           /\ result.level = current_stable_level
           /\ call.override =>
                  /\ call.rule_level = "HIGH FATIGUE"
                  /\ call.proposed_level = "HIGH FATIGUE"
                  /\ result.level = "HIGH FATIGUE"
                  /\ level_persistence_timer = call.hybrid_time

\* C26 witness: the override fires on continuous closure alone (equation
\* score 0.27, no alerts yet) and takes the stable level from NORMAL to HIGH
\* FATIGUE.
C26_Witness ==
    /\ call.classified /\ call.override
    /\ call.physio_scores = LongClosure
    /\ call.previous_alerts = 0
    /\ call.stable_before = "NORMAL"
    /\ result.level = "HIGH FATIGUE"
    /\ current_stable_level = "HIGH FATIGUE"

\* a yawning frame is still in the window
YawnInWindow == \E i \in 1..Len(yawn_states) : yawn_states[i]

\* C27: with frame_rate >= 1, fom is 0 or at least 2.0, never in between; it
\* is at least 2.0, above the 0.16 of the first rule list, whenever the
\* window holds 30 frames or more and a yawning frame among them; and every
\* classifying call made with a yawning frame still in the window has rule
\* level HIGH FATIGUE and emits HIGH FATIGUE through the emergency override.
C27_AnyYawnIsHighFatigue ==
    \A fom \in {calculate_fom(yawn_states, frame_rate)} :
        /\ fom[2] > 0
        /\ fom[1] = 0 \/ fom[1] >= 2 * fom[2]
        /\ (Len(yawn_states) >= 30 /\ YawnInWindow) =>
               (fom[1] >= 2 * fom[2] /\ 100 * fom[1] > 16 * fom[2])
        /\ (call.classified /\ YawnInWindow) =>
               /\ Len(yawn_states) >= 30
               /\ call.physio_scores.fom = fom
               /\ call.rule_level = "HIGH FATIGUE"
               /\ call.override
               /\ result.level = "HIGH FATIGUE"

\* C27 witness: the first classifying call, on a frame without a yawn, with
\* one yawning frame 30 s back at the head of the full window: fom is 2.0
\* and HIGH FATIGUE is emitted at once from NORMAL.
C27_Witness ==
    /\ call.classified /\ call.stable_before = "NORMAL"
    /\ frame_rate = 1 /\ Len(yawn_states) = window_frames(frame_rate)
    /\ yawn_states[1] /\ \A i \in 2..Len(yawn_states) : ~yawn_states[i]
    /\ call.physio_scores.fom = RInt(2)
    /\ call.override
    /\ result.level = "HIGH FATIGUE"

\* successive records of alert_history are at most gap ticks apart
RecordsWithin(gap) ==
    \A i \in 1..(Len(alert_history) - 1) :
        alert_history[i + 1][2] - alert_history[i][2] <= gap

ThirdRecordIsEarly ==
    /\ call.classified /\ call.previous_alerts = 2
    /\ previous_alerts_count = 3
    /\ result.level = "EARLY FATIGUE"

C28_DroopyFaceDoesNotInterfere ==
    twin # NoTwin =>
        /\ twin.result = result
        /\ twin.current_stable_level = current_stable_level
        /\ twin.level_persistence_timer = level_persistence_timer
        /\ twin.alert_history = alert_history
        /\ twin.previous_alerts_count = previous_alerts_count
        /\ twin.startup_frames = startup_frames
        /\ frame_count > 0 =>
               \A k \in {"perclos", "fom", "continuous_closure_sec",
                          "droopy_eyelids_frequency"} :
                   twin.snapshot[k] = snapshot[k]
        /\ twin.faces = "same" =>
               /\ twin.snapshot = snapshot
               /\ twin.droopy_face_states = droopy_face_states
               /\ twin.eye_states = eye_states

\* C28 witness: a classifying call of two runs, one with no droopy_face
\* detection in its window and one with more than 10 s of them on end and a
\* frequency above 0.8; both return NORMAL with the same score and message.
C28_Witness ==
    /\ call.classified
    /\ twin.snapshot.continuous_droopy_face_sec
           # snapshot.continuous_droopy_face_sec
    /\ twin.snapshot.droopy_face_frequency # snapshot.droopy_face_frequency
    /\ RGt(twin.snapshot.continuous_droopy_face_sec, RInt(10))
    /\ RGt(twin.snapshot.droopy_face_frequency, <<8, 10>>)
    /\ snapshot.droopy_face_frequency = RInt(0)
    /\ result.level = "NORMAL"
    /\ twin.result = result

====
